---- MODULE Spec2Model ----
(***************************************************************************)
(* Recipe backend: the Express routes of src/routes/recipes.js behind the  *)
(* `protect` middleware of src/middleware/auth.js and the error handler of *)
(* src/server.js.  The persisted state is the Recipe and User collections  *)
(* (MongoDB) and the Cloudinary asset store; every request is one action   *)
(* that runs its middleware chain and handler to completion.               *)
(***************************************************************************)
EXTENDS Integers, Sequences, FiniteSets, TLC

\* ---------------------------------------------------------------- bounds
NumUsers == 2       \* registered users, _id 1..NumUsers
MaxRecipes == 1     \* Recipe documents ever created (ObjectIds are never reused)
MaxAssets == 2      \* Cloudinary uploads ever accepted (public_ids are never reused)
MaxSubdocs == 2     \* review and reply subdocuments ever created
MaxInflight == 2    \* requests suspended at an await at the same time

Users == 1..NumUsers
NoUser == 0                      \* req.user undefined
BadId == 0                       \* a string that is no ObjectId
IdParams == 0..MaxRecipes        \* values of req.params.id
SubIdParams == 0..MaxSubdocs     \* values of req.params.reviewId

\* ---------------------------------------------------------------- state
VARIABLES
  recipes,     \* Recipe collection: _id -> document
  recipeCount, \* Recipe _ids issued so far
  favorites,   \* User collection: user _id -> favorites array
  assets,      \* public_ids stored in Cloudinary
  assetCount,  \* public_ids issued so far
  subCount,    \* subdocument _ids issued so far
  req,         \* the last request after its middleware chain: op, req.user, next() called
  res,         \* the last response: code set by the route, error thrown, status sent, body
  inflight     \* the requests suspended at an await: where, req, the loaded document, res

vars == <<recipes, recipeCount, favorites, assets, assetCount, subCount, req, res, inflight>>
db == <<recipes, recipeCount, favorites, assets, assetCount, subCount>>

\* ---------------------------------------------------------------- inputs
\* Authorization headers: absent, a Bearer token that jwt.verify rejects
\* (malformed, bad signature, expired), and a token that verifies to a payload
\* with id (0: the payload has no id; NumUsers + 1: an id no user document has).
NoHeader == [scheme |-> "none", verifies |-> FALSE, id |-> 0]
Bearer(i) == [scheme |-> "Bearer", verifies |-> TRUE, id |-> i]

Tokens ==
  {NoHeader, [scheme |-> "Bearer", verifies |-> FALSE, id |-> 0]}
  \cup {Bearer(i) : i \in 0..(NumUsers + 1)}

\* req.body of create and update: every field is a string, "" when absent;
\* a body may carry keys the handlers never read, such as createdBy (NoUser
\* when absent).
Fields(v, ing, c) ==
  [title |-> v, ingredients |-> ing, instructions |-> v, category |-> v,
   cookingTime |-> v, createdBy |-> c]

CreatePayloads ==
  {Fields("a", "[a]", NumUsers), [Fields("a", "[a]", NoUser) EXCEPT !.title = ""],
   Fields("a", "oops", NoUser)}

UpdatePayloads ==
  {Fields("", "", NoUser), Fields("b", "[b]", NumUsers),
   [Fields("", "", NoUser) EXCEPT !.title = "b"],
   [Fields("", "", NoUser) EXCEPT !.ingredients = "oops"]}

Ratings == {0, 1, 10, 11}
Descriptions == {<<>>, <<" ">>, <<"a">>}
Categories == {"", "a", "b"}     \* req.query.category, "" when absent

\* The first awaited external call that rejects in a request, if any:
\* cloudinary.uploader.destroy, the upload stream, or the write of the document.
Faults == {"none", "destroy", "upload", "save"}

\* ---------------------------------------------------------------- helpers
ParseError == <<"SyntaxError">>

\* JSON.parse of the ingredients field: an array of strings, or it throws.
JSONParse(s) ==
  CASE s = "[a]" -> <<"a">>
    [] s = "[b]" -> <<"b">>
    [] OTHER -> ParseError

RECURSIVE TrimStart(_)
TrimStart(s) == IF s # <<>> /\ Head(s) = " " THEN TrimStart(Tail(s)) ELSE s

RECURSIVE TrimEnd(_)
TrimEnd(s) ==
  IF s # <<>> /\ s[Len(s)] = " " THEN TrimEnd(SubSeq(s, 1, Len(s) - 1)) ELSE s

\* String.prototype.trim
Trim(s) == TrimEnd(TrimStart(s))

\* mongoose.Types.ObjectId.isValid
IsValidObjectId(id) == id # BadId

\* Recipe.findById: the document, or null
Exists(id) == id \in DOMAIN recipes

\* ---------------------------------------------------------------- responses
NoBody == <<>>

\* res.status(code); throw new Error(message): express-async-handler passes
\* the error to next(err), and the error middleware of server.js answers.
ErrorHandler(code, message) ==
  [code |-> code, thrown |-> message, status |-> 500, body |-> NoBody]

\* res.status(code).json(body)
Json(code, body) ==
  [code |-> code, thrown |-> "", status |-> code, body |-> body]

\* ---------------------------------------------------------------- Auth Gate
\* protect: the user it attaches and calls next() with, or the 401 it throws.
\* The errors thrown inside the try block are caught by its own catch and
\* rethrown as "token failed".
\* protect without the lookup of the user: any verified payload with an id passes.
Protect_NoLookup(t) ==
  IF t.scheme = "Bearer" /\ t.verifies /\ t.id # 0
  THEN [ok |-> TRUE, user |-> t.id, code |-> 200, thrown |-> ""]
  ELSE [ok |-> FALSE, user |-> NoUser, code |-> 401,
        thrown |-> "Not authorized, token failed"]

Protect(t) ==
  IF t.scheme = "Bearer"
  THEN IF ~t.verifies
       THEN [ok |-> FALSE, user |-> NoUser, code |-> 401,
             thrown |-> "Not authorized, token failed"]
       ELSE IF t.id = 0
       THEN [ok |-> FALSE, user |-> NoUser, code |-> 401,
             thrown |-> "Not authorized, token failed"]
       ELSE IF t.id \notin Users
       THEN [ok |-> FALSE, user |-> NoUser, code |-> 401,
             thrown |-> "Not authorized, token failed"]
       ELSE [ok |-> TRUE, user |-> t.id, code |-> 200, thrown |-> ""]
  ELSE [ok |-> FALSE, user |-> NoUser, code |-> 401,
        thrown |-> "Not authorized, no token"]

\* What a request carries: the route, the Authorization header, params.id,
\* whether multer found a photo, and the rating and description of a review
\* or reply body (0 and <<>> on the other routes).
Request(op, t, id, file, rating, d) ==
  [op |-> op, token |-> t, id |-> id, file |-> file, rating |-> rating, description |-> d]

\* A protected route whose gate threw: the handler is not called.
Rejected(q, auth) ==
  /\ req' = q @@ [user |-> NoUser, next |-> FALSE]
  /\ res' = ErrorHandler(auth.code, auth.thrown)
  /\ UNCHANGED <<db, inflight>>

\* The handler of a route throws after res.status(code).
Throw(q, user, code, message) ==
  /\ req' = q @@ [user |-> user, next |-> TRUE]
  /\ res' = ErrorHandler(code, message)
  /\ UNCHANGED inflight

\* The handler of a route answers.
Reply(q, user, code, body) ==
  /\ req' = q @@ [user |-> user, next |-> TRUE]
  /\ res' = Json(code, body)
  /\ UNCHANGED inflight

\* No request is being served: req and res live for one request only.
Idle == Request("none", NoHeader, BadId, FALSE, 0, <<>>) @@ [user |-> NoUser, next |-> FALSE]

\* The requests that run at the same time, and a place none of them takes.
Slots == 1..MaxInflight
Free == [pc |-> "free", req |-> Idle, recipe |-> <<>>]

Init ==
  /\ recipes = <<>>
  /\ recipeCount = 0
  /\ favorites = [u \in Users |-> <<>>]
  /\ assets = {}
  /\ assetCount = 0
  /\ subCount = 0
  /\ req = Idle
  /\ res = Json(200, NoBody)
  /\ inflight = [h \in Slots |-> Free]

\* ---------------------------------------------------------------- create
\* Recipe.create given the whole body: a createdBy key of the body wins.
NewRecipe_FromBody(id, user, p, publicId) ==
  [_id |-> id,
   title |-> p.title,
   ingredients |-> JSONParse(p.ingredients),
   instructions |-> p.instructions,
   category |-> p.category,
   cookingTime |-> p.cookingTime,
   photo |-> [public_id |-> publicId, url |-> publicId],
   createdBy |-> IF p.createdBy # NoUser THEN p.createdBy ELSE user,
   reviews |-> <<>>]

\* The document Recipe.create stores.
NewRecipe(id, user, p, publicId) ==
  [_id |-> id,
   title |-> p.title,
   ingredients |-> JSONParse(p.ingredients),
   instructions |-> p.instructions,
   category |-> p.category,
   cookingTime |-> p.cookingTime,
   photo |-> [public_id |-> publicId, url |-> publicId],
   createdBy |-> user,
   reviews |-> <<>>]

MissingField(p, file) ==
  \/ p.title = ""
  \/ p.ingredients = ""
  \/ p.instructions = ""
  \/ p.category = ""
  \/ p.cookingTime = ""
  \/ ~file

\* POST /
CreateRecipe(t, p, file, fault) ==
  LET auth == Protect(t)
      q == Request("createRecipe", t, BadId, file, 0, <<>>)
      user == auth.user
      publicId == assetCount + 1
      id == recipeCount + 1
  IN
  IF ~auth.ok THEN Rejected(q, auth)
  ELSE IF MissingField(p, file)
  THEN /\ Throw(q, user, 400, "Please fill all fields and upload a photo")
       /\ UNCHANGED db
  ELSE IF fault = "upload"
  THEN /\ Throw(q, user, 500, "Failed to create recipe")
       /\ UNCHANGED db
  ELSE IF JSONParse(p.ingredients) = ParseError \/ fault = "save"
  THEN /\ assetCount < MaxAssets
       /\ Throw(q, user, 500, "Failed to create recipe")
       /\ assets' = assets \cup {publicId}
       /\ assetCount' = publicId
       /\ UNCHANGED <<recipes, recipeCount, favorites, subCount>>
  ELSE /\ assetCount < MaxAssets
       /\ recipeCount < MaxRecipes
       /\ recipes' = (id :> NewRecipe(id, user, p, publicId)) @@ recipes
       /\ recipeCount' = id
       /\ assets' = assets \cup {publicId}
       /\ assetCount' = publicId
       /\ Reply(q, user, 201, NewRecipe(id, user, p, publicId))
       /\ UNCHANGED <<favorites, subCount>>

\* ---------------------------------------------------------------- update
\* The handlers without their ownership check.
IsOwner_Unchecked(recipe, user) == TRUE

\* recipe.createdBy.toString() !== req.user._id.toString() is its negation
IsOwner(recipe, user) == recipe.createdBy = user

\* value || recipe.value
OrKeep(value, kept) == IF value # "" THEN value ELSE kept

\* The photo the handler assigns from the result of the upload.
UploadedPhoto(publicId) == [public_id |-> publicId, url |-> publicId]

\* The photo the handler forgets to assign.
ReplacePhoto_Kept(recipe, file, publicId) == recipe

\* if (req.file) { ... recipe.photo = { public_id, url } }
ReplacePhoto(recipe, file, publicId) ==
  IF file THEN [recipe EXCEPT !.photo = UploadedPhoto(publicId)] ELSE recipe

\* The field assignments before recipe.save().
AssignFields(recipe, p) ==
  [recipe EXCEPT
     !.title = OrKeep(p.title, recipe.title),
     !.ingredients = IF p.ingredients # "" THEN JSONParse(p.ingredients)
                     ELSE recipe.ingredients,
     !.instructions = OrKeep(p.instructions, recipe.instructions),
     !.category = OrKeep(p.category, recipe.category),
     !.cookingTime = OrKeep(p.cookingTime, recipe.cookingTime)]

\* PUT /:id
UpdateRecipe(t, id, p, file, fault) ==
  LET auth == Protect(t)
      q == Request("updateRecipe", t, id, file, 0, <<>>)
      user == auth.user
      publicId == assetCount + 1
      afterDestroy == IF file THEN assets \ {recipes[id].photo.public_id} ELSE assets
      afterUpload == IF file THEN afterDestroy \cup {publicId} ELSE assets
      withPhoto == ReplacePhoto(recipes[id], file, publicId)
  IN
  IF ~auth.ok THEN Rejected(q, auth)
  ELSE IF ~IsValidObjectId(id)
  THEN /\ Throw(q, user, 400, "Invalid recipe ID")
       /\ UNCHANGED db
  ELSE IF ~Exists(id)
  THEN /\ Throw(q, user, 404, "Recipe not found")
       /\ UNCHANGED db
  ELSE IF ~IsOwner(recipes[id], user)
  THEN /\ Throw(q, user, 401, "Not authorized")
       /\ UNCHANGED db
  ELSE IF file /\ fault = "destroy"
  THEN /\ Throw(q, user, 200, "destroy rejected")
       /\ UNCHANGED db
  ELSE IF file /\ fault = "upload"
  THEN /\ Throw(q, user, 200, "upload rejected")
       /\ assets' = afterDestroy
       /\ UNCHANGED <<recipes, recipeCount, favorites, assetCount, subCount>>
  ELSE /\ file => assetCount < MaxAssets
       /\ assets' = afterUpload
       /\ assetCount' = IF file THEN publicId ELSE assetCount
       /\ UNCHANGED <<recipeCount, favorites, subCount>>
       /\ IF p.ingredients # "" /\ JSONParse(p.ingredients) = ParseError
          THEN /\ Throw(q, user, 200, "SyntaxError")
               /\ UNCHANGED recipes
          ELSE IF fault = "save"
          THEN /\ Throw(q, user, 200, "save rejected")
               /\ UNCHANGED recipes
          ELSE /\ recipes' = [recipes EXCEPT ![id] = AssignFields(withPhoto, p)]
               /\ Reply(q, user, 200, AssignFields(withPhoto, p))

\* ---------------------------------------------------------------- delete
\* recipe.deleteOne()
DeleteOne(id) == [r \in DOMAIN recipes \ {id} |-> recipes[r]]

\* DELETE /:id
DeleteRecipe(t, id, fault) ==
  LET auth == Protect(t)
      q == Request("deleteRecipe", t, id, FALSE, 0, <<>>)
      user == auth.user
  IN
  IF ~auth.ok THEN Rejected(q, auth)
  ELSE IF ~IsValidObjectId(id)
  THEN /\ Throw(q, user, 400, "Invalid recipe ID")
       /\ UNCHANGED db
  ELSE IF ~Exists(id)
  THEN /\ Throw(q, user, 404, "Recipe not found")
       /\ UNCHANGED db
  ELSE IF ~IsOwner(recipes[id], user)
  THEN /\ Throw(q, user, 401, "Not authorized")
       /\ UNCHANGED db
  ELSE IF fault = "destroy"
  THEN /\ Throw(q, user, 200, "destroy rejected")
       /\ UNCHANGED db
  ELSE /\ assets' = assets \ {recipes[id].photo.public_id}
       /\ recipes' = DeleteOne(id)
       /\ Reply(q, user, 200, [message |-> "Recipe deleted"])
       /\ UNCHANGED <<recipeCount, favorites, assetCount, subCount>>

\* ---------------------------------------------------------------- reads
\* GET / and GET /:id are registered without protect, and no other middleware
\* of the application assigns req.user: the handler sees it undefined.
ViewerOf(t) == NoUser

\* includes by identity of the ObjectId objects: never true of a loaded array.
Includes_ByIdentity(favs, id) == FALSE

\* Array.prototype.includes / some over the favorites array
Includes(favs, id) == \E i \in 1..Len(favs) : favs[i] = id

\* { ...recipe.toJSON(), isFavorited }
WithFavorite(recipe, favs) == [isFavorited |-> Includes(favs, recipe._id)] @@ recipe

\* Recipe.find(query)
Find(category) ==
  {r \in DOMAIN recipes : category = "" \/ recipes[r].category = category}

\* GET /
ListRecipes(t, category) ==
  LET q == Request("listRecipes", t, BadId, FALSE, 0, <<>>)
      user == ViewerOf(t)
  IN
  /\ IF user # NoUser
     THEN Reply(q, user, 200,
                [r \in Find(category) |-> WithFavorite(recipes[r], favorites[user])])
     ELSE Reply(q, user, 200, [r \in Find(category) |-> recipes[r]])
  /\ UNCHANGED db

\* GET /:id
GetRecipe(t, id) ==
  LET q == Request("getRecipe", t, id, FALSE, 0, <<>>)
      user == ViewerOf(t)
  IN
  /\ IF ~IsValidObjectId(id)
     THEN Throw(q, user, 400, "Invalid recipe ID")
     ELSE IF ~Exists(id)
     THEN Throw(q, user, 404, "Recipe not found")
     ELSE IF user # NoUser
     THEN Reply(q, user, 200, WithFavorite(recipes[id], favorites[user]))
     ELSE Reply(q, user, 200, recipes[id])
  /\ UNCHANGED db

\* ---------------------------------------------------------------- reviews
\* !rating || rating < 1 || rating > 10
BadRating(rating) == rating = 0 \/ rating < 1 \/ rating > 10

\* !description || description.trim() === ""
BadDescription(d) == d = <<>> \/ Trim(d) = <<>>

\* The scan comparing the _id of the review, not its author.
AlreadyReviewed_ById(recipe, user) ==
  \E i \in 1..Len(recipe.reviews) : recipe.reviews[i]._id = user

\* recipe.reviews.some(review => review.user equals req.user._id)
AlreadyReviewed(recipe, user) ==
  \E i \in 1..Len(recipe.reviews) : recipe.reviews[i].user = user

\* recipe.reviews.push(review)
PushReview(recipe, subId, user, rating, d) ==
  [recipe EXCEPT !.reviews =
     Append(@, [_id |-> subId, rating |-> rating, description |-> d, user |-> user,
                replies |-> <<>>])]

\* POST /:id/reviews
AddReview(t, id, rating, d) ==
  LET auth == Protect(t)
      q == Request("addReview", t, id, FALSE, rating, d)
      user == auth.user
      subId == subCount + 1
  IN
  IF ~auth.ok THEN Rejected(q, auth)
  ELSE IF ~IsValidObjectId(id)
  THEN /\ Throw(q, user, 400, "Invalid recipe ID")
       /\ UNCHANGED db
  ELSE IF ~Exists(id)
  THEN /\ Throw(q, user, 404, "Recipe not found")
       /\ UNCHANGED db
  ELSE IF BadRating(rating)
  THEN /\ Throw(q, user, 400, "Rating must be between 1 and 10")
       /\ UNCHANGED db
  ELSE IF BadDescription(d)
  THEN /\ Throw(q, user, 400, "Description is required")
       /\ UNCHANGED db
  ELSE IF AlreadyReviewed(recipes[id], user)
  THEN /\ Throw(q, user, 400, "You have already reviewed this recipe")
       /\ UNCHANGED db
  ELSE /\ subCount < MaxSubdocs
       /\ recipes' = [recipes EXCEPT ![id] = PushReview(@, subId, user, rating, d)]
       /\ subCount' = subId
       /\ Reply(q, user, 201, PushReview(recipes[id], subId, user, rating, d))
       /\ UNCHANGED <<recipeCount, favorites, assets, assetCount>>

\* recipe.reviews.id(reviewId): the position of the review, 0 when there is none
ReviewIndex(recipe, reviewId) ==
  IF \E i \in 1..Len(recipe.reviews) : recipe.reviews[i]._id = reviewId
  THEN CHOOSE i \in 1..Len(recipe.reviews) : recipe.reviews[i]._id = reviewId
  ELSE 0

\* review.replies.push(reply)
PushReply(recipe, i, subId, user, d) ==
  [recipe EXCEPT !.reviews[i].replies =
     Append(@, [_id |-> subId, description |-> d, user |-> user])]

\* POST /:id/reviews/:reviewId/replies
AddReply(t, id, reviewId, d) ==
  LET auth == Protect(t)
      q == Request("addReply", t, id, FALSE, 0, d)
      user == auth.user
      subId == subCount + 1
  IN
  IF ~auth.ok THEN Rejected(q, auth)
  ELSE IF ~IsValidObjectId(id)
  THEN /\ Throw(q, user, 400, "Invalid recipe ID")
       /\ UNCHANGED db
  ELSE IF ~IsValidObjectId(reviewId)
  THEN /\ Throw(q, user, 400, "Invalid review ID")
       /\ UNCHANGED db
  ELSE IF ~Exists(id)
  THEN /\ Throw(q, user, 404, "Recipe not found")
       /\ UNCHANGED db
  ELSE IF ReviewIndex(recipes[id], reviewId) = 0
  THEN /\ Throw(q, user, 404, "Review not found")
       /\ UNCHANGED db
  ELSE IF BadDescription(d)
  THEN /\ Throw(q, user, 400, "Reply description is required")
       /\ UNCHANGED db
  ELSE /\ subCount < MaxSubdocs
       /\ recipes' = [recipes EXCEPT ![id] =
                        PushReply(@, ReviewIndex(@, reviewId), subId, user, d)]
       /\ subCount' = subId
       /\ Reply(q, user, 201,
                PushReply(recipes[id], ReviewIndex(recipes[id], reviewId), subId, user, d))
       /\ UNCHANGED <<recipeCount, favorites, assets, assetCount>>

\* ---------------------------------------------------------------- reviews, interleaved
\* POST /:id/reviews as the steps between its awaits: requests that are
\* suspended at Recipe.findById or at recipe.save() leave the server free to
\* run the steps of other requests.

\* A request suspended at the await named pc, holding the document it loaded.
Suspended(pc, q, doc) == [pc |-> pc, req |-> q, recipe |-> doc]

\* The request in slot h is answered, by res.json or by the error middleware.
Respond(h, response) ==
  /\ req' = inflight[h].req
  /\ res' = response
  /\ inflight' = [inflight EXCEPT ![h] = Free]

\* The document of the request in slot h, as its handler holds it in memory.
Loaded(h) == inflight[h].recipe[1]

\* The review recipe.reviews.push added to the document in memory.
Pushed(local) == local.reviews[Len(local.reviews)]

\* The Recipe schema sets no optimisticConcurrency: save() puts no condition
\* on the version of the stored document.
VersionConflict(stored, local) == FALSE

\* save() writing the whole document in memory over the stored one.
Saved_Overwrite(stored, local) == local

\* recipe.save() after reviews.push: Mongoose sends the pushed element only
\* ($push), which the store appends to the array it holds at that moment.
Saved(stored, local) == [stored EXCEPT !.reviews = Append(@, Pushed(local))]

\* protect, the ObjectId check, and the call of Recipe.findById.
BeginReview(h, t, id, rating, d) ==
  LET auth == Protect(t)
      q == Request("addReview", t, id, FALSE, rating, d)
  IN
  /\ inflight[h].pc = "free"
  /\ IF ~auth.ok THEN Rejected(q, auth)
     ELSE IF ~IsValidObjectId(id)
     THEN /\ Throw(q, auth.user, 400, "Invalid recipe ID")
          /\ UNCHANGED db
     ELSE /\ inflight' = [inflight EXCEPT ![h] =
               Suspended("findById", q @@ [user |-> auth.user, next |-> TRUE], <<>>)]
          /\ UNCHANGED <<db, req, res>>

\* Recipe.findById resolves with the stored document: the checks, the scan of
\* the loaded reviews, the push, and the call of recipe.save().
LoadReview(h) ==
  LET q == inflight[h].req
      subId == subCount + 1
      Fail(code, message) == Respond(h, ErrorHandler(code, message)) /\ UNCHANGED db
  IN
  /\ inflight[h].pc = "findById"
  /\ IF ~Exists(q.id) THEN Fail(404, "Recipe not found")
     ELSE IF BadRating(q.rating) THEN Fail(400, "Rating must be between 1 and 10")
     ELSE IF BadDescription(q.description) THEN Fail(400, "Description is required")
     ELSE IF AlreadyReviewed(recipes[q.id], q.user)
     THEN Fail(400, "You have already reviewed this recipe")
     ELSE /\ subCount < MaxSubdocs
          /\ subCount' = subId
          /\ inflight' = [inflight EXCEPT ![h] =
               Suspended("save", q,
                 <<PushReview(recipes[q.id], subId, q.user, q.rating, q.description)>>)]
          /\ UNCHANGED <<recipes, recipeCount, favorites, assets, assetCount, req, res>>

\* recipe.save() resolves, and the handler calls Recipe.findById(...).populate.
SaveReview(h) ==
  LET q == inflight[h].req
  IN
  /\ inflight[h].pc = "save"
  /\ IF ~Exists(q.id)
     THEN Respond(h, ErrorHandler(200, "save rejected")) /\ UNCHANGED db
     ELSE IF VersionConflict(recipes[q.id], Loaded(h))
     THEN Respond(h, ErrorHandler(200, "VersionError")) /\ UNCHANGED db
     ELSE /\ recipes' = [recipes EXCEPT ![q.id] = Saved(@, Loaded(h))]
          /\ inflight' = [inflight EXCEPT ![h] = Suspended("populate", q, <<>>)]
          /\ UNCHANGED <<recipeCount, favorites, assets, assetCount, subCount, req, res>>

\* The populated document is read back: res.status(201).json(updatedRecipe).
RespondReview(h) ==
  LET q == inflight[h].req
  IN
  /\ inflight[h].pc = "populate"
  /\ Respond(h, Json(201, IF Exists(q.id) THEN recipes[q.id] ELSE NoBody))
  /\ UNCHANGED db

\* ---------------------------------------------------------------- favorites
\* user.favorites.filter(favId => favId differs from recipe._id)
Without(favs, id) == SelectSeq(favs, LAMBDA f : f # id)

\* POST /:id/favorite
AddFavorite(t, id) ==
  LET auth == Protect(t)
      q == Request("addFavorite", t, id, FALSE, 0, <<>>)
      user == auth.user
  IN
  IF ~auth.ok THEN Rejected(q, auth)
  ELSE IF ~IsValidObjectId(id)
  THEN /\ Throw(q, user, 400, "Invalid recipe ID")
       /\ UNCHANGED db
  ELSE IF ~Exists(id)
  THEN /\ Throw(q, user, 404, "Recipe not found")
       /\ UNCHANGED db
  ELSE IF Includes(favorites[user], id)
  THEN /\ Throw(q, user, 400, "Recipe already in favorites")
       /\ UNCHANGED db
  ELSE /\ favorites' = [favorites EXCEPT ![user] = Append(@, id)]
       /\ Reply(q, user, 200,
                [message |-> "Recipe added to favorites", isFavorited |-> TRUE])
       /\ UNCHANGED <<recipes, recipeCount, assets, assetCount, subCount>>

\* DELETE /:id/favorite
RemoveFavorite(t, id) ==
  LET auth == Protect(t)
      q == Request("removeFavorite", t, id, FALSE, 0, <<>>)
      user == auth.user
  IN
  IF ~auth.ok THEN Rejected(q, auth)
  ELSE IF ~IsValidObjectId(id)
  THEN /\ Throw(q, user, 400, "Invalid recipe ID")
       /\ UNCHANGED db
  ELSE IF ~Exists(id)
  THEN /\ Throw(q, user, 404, "Recipe not found")
       /\ UNCHANGED db
  ELSE IF ~Includes(favorites[user], id)
  THEN /\ Throw(q, user, 400, "Recipe not in favorites")
       /\ UNCHANGED db
  ELSE /\ favorites' = [favorites EXCEPT ![user] = Without(@, id)]
       /\ Reply(q, user, 200,
                [message |-> "Recipe removed from favorites", isFavorited |-> FALSE])
       /\ UNCHANGED <<recipes, recipeCount, assets, assetCount, subCount>>

\* ---------------------------------------------------------------- requests
\* A request that protect rejects never reads its other inputs: they are
\* drawn for the requests that pass the gate, and one representative of them
\* for the requests that do not.
Drawn(t, args, one) == Protect(t).ok \/ args = one

\* One representative of each input set.
One(S) == CHOOSE x \in S : TRUE

CreateRequests(payloads, faults) ==
  /\ req = Idle
  /\ \E t \in Tokens, p \in payloads, file \in BOOLEAN, fault \in faults :
       /\ Drawn(t, <<p, file, fault>>, <<One(payloads), TRUE, One(faults)>>)
       /\ CreateRecipe(t, p, file, fault)

UpdateRequests(ids, payloads, faults) ==
  /\ req = Idle
  /\ \E t \in Tokens, id \in ids, p \in payloads, file \in BOOLEAN, fault \in faults :
       /\ Drawn(t, <<id, p, file, fault>>, <<BadId, One(payloads), TRUE, One(faults)>>)
       /\ UpdateRecipe(t, id, p, file, fault)

DeleteRequests(ids, faults) ==
  /\ req = Idle
  /\ \E t \in Tokens, id \in ids, fault \in faults :
       /\ Drawn(t, <<id, fault>>, <<BadId, One(faults)>>)
       /\ DeleteRecipe(t, id, fault)

ListRequest ==
  /\ req = Idle
  /\ \E t \in Tokens, category \in Categories : ListRecipes(t, category)

GetRequest ==
  /\ req = Idle
  /\ \E t \in Tokens, id \in IdParams : GetRecipe(t, id)

ReviewRequests(ids, ratings, descriptions) ==
  /\ req = Idle
  /\ \E t \in Tokens, id \in ids, rating \in ratings, d \in descriptions :
       /\ Drawn(t, <<id, rating, d>>, <<BadId, One(ratings), One(descriptions)>>)
       /\ AddReview(t, id, rating, d)

ReplyRequests(ids, descriptions) ==
  /\ req = Idle
  /\ \E t \in Tokens, id \in ids, reviewId \in SubIdParams, d \in descriptions :
       /\ Drawn(t, <<id, reviewId, d>>, <<BadId, BadId, One(descriptions)>>)
       /\ AddReply(t, id, reviewId, d)

AddFavoriteRequests(ids) ==
  /\ req = Idle
  /\ \E t \in Tokens, id \in ids : Drawn(t, id, BadId) /\ AddFavorite(t, id)

RemoveFavoriteRequests(ids) ==
  /\ req = Idle
  /\ \E t \in Tokens, id \in ids : Drawn(t, id, BadId) /\ RemoveFavorite(t, id)

\* The response has been written: the request is over, and the server takes
\* the next one.
EndRequest ==
  /\ req # Idle
  /\ req' = Idle
  /\ res' = Json(200, NoBody)
  /\ UNCHANGED <<db, inflight>>

\* A well-formed create whose external calls succeed.
Seed == CreateRequests({Fields("a", "[a]", NumUsers)}, {"none"})

\* Every route, with every header, body and external fault.
Next ==
  \/ CreateRequests(CreatePayloads, Faults \ {"destroy"})
  \/ UpdateRequests(IdParams, UpdatePayloads, Faults)
  \/ DeleteRequests(IdParams, {"none", "destroy"})
  \/ ListRequest
  \/ GetRequest
  \/ ReviewRequests(IdParams, Ratings, Descriptions)
  \/ ReplyRequests(IdParams, Descriptions)
  \/ AddFavoriteRequests(IdParams)
  \/ RemoveFavoriteRequests(IdParams)
  \/ EndRequest

Spec == Init /\ [][Next]_vars

\* Every protected route under every Authorization header; the requests that
\* pass the gate address the first recipe and meet no external fault.
NextGate ==
  \/ Seed
  \/ UpdateRequests({BadId, 1}, {Fields("b", "[b]", NumUsers)}, {"none"})
  \/ DeleteRequests({BadId, 1}, {"none"})
  \/ ReviewRequests({BadId, 1}, {1}, {<<"a">>})
  \/ ReplyRequests({BadId, 1}, {<<"a">>})
  \/ AddFavoriteRequests({BadId, 1})
  \/ RemoveFavoriteRequests({BadId, 1})
  \/ EndRequest

SpecGate == Init /\ [][NextGate]_vars

\* The three specifications below keep to the routes that write one part of
\* the state, so that they stay checkable with more users and recipes.
\* The recipe lifecycle with every body and every external fault.
NextRecipes ==
  \/ CreateRequests(CreatePayloads, Faults \ {"destroy"})
  \/ UpdateRequests(IdParams, UpdatePayloads, Faults)
  \/ DeleteRequests(IdParams, {"none", "destroy"})
  \/ EndRequest

SpecRecipes == Init /\ [][NextRecipes]_vars

\* Reviews and replies on seeded recipes.
NextReviews ==
  \/ Seed
  \/ ReviewRequests(IdParams, Ratings, Descriptions)
  \/ ReplyRequests(IdParams, Descriptions)
  \/ EndRequest

SpecReviews == Init /\ [][NextReviews]_vars

\* Favorites and the reads that project them, on seeded recipes.
NextFavorites ==
  \/ Seed
  \/ DeleteRequests(IdParams, {"none"})
  \/ AddFavoriteRequests(IdParams)
  \/ RemoveFavoriteRequests(IdParams)
  \/ GetRequest
  \/ ListRequest
  \/ EndRequest

SpecFavorites == Init /\ [][NextFavorites]_vars

\* Reviews whose handlers interleave at their awaits, on recipes that are
\* created and deleted meanwhile. The slots are interchangeable: a new request
\* takes the first free one.
BeginReviews(ids, ratings, descriptions) ==
  \E h \in Slots, t \in Tokens, id \in ids, rating \in ratings, d \in descriptions :
    /\ \A k \in Slots : k < h => inflight[k].pc # "free"
    /\ Drawn(t, <<id, rating, d>>, <<BadId, One(ratings), One(descriptions)>>)
    /\ BeginReview(h, t, id, rating, d)

NextRace ==
  \/ Seed
  \/ DeleteRequests(IdParams, {"none"})
  \/ EndRequest
  \/ BeginReviews(IdParams, {0, 1}, {<<" ">>, <<"a">>})
  \/ \E h \in Slots : LoadReview(h)
  \/ \E h \in Slots : SaveReview(h)
  \/ \E h \in Slots : RespondReview(h)

SpecRace == Init /\ [][NextRace]_vars

\* ---------------------------------------------------------------- vocabulary
\* The acting identity of a request: the existing user its verified bearer
\* token names, NoUser when there is none.
Actor(q) ==
  IF q.token.scheme = "Bearer" /\ q.token.verifies /\ q.token.id \in Users
  THEN q.token.id ELSE NoUser

Forbidden(r) == r.thrown = "Not authorized" /\ r.code = 401

Unauthenticated(r) ==
  /\ r.thrown \in {"Not authorized, no token", "Not authorized, token failed"}
  /\ r.code = 401

Succeeded(r) == r.thrown = "" /\ r.status \in {200, 201}

\* ---------------------------------------------------------------- C1
\* C1: an update or delete of an existing recipe by an authenticated actor who
\* is not its creator fails as Forbidden, with or without a photo and whatever
\* the body, and changes neither the recipe collection nor the asset store.
C1_NonOwnerForbidden ==
  [][(/\ req'.op \in {"updateRecipe", "deleteRecipe"}
      /\ Actor(req') # NoUser
      /\ req'.id \in DOMAIN recipes
      /\ recipes[req'.id].createdBy # Actor(req'))
     => (/\ Forbidden(res')
         /\ recipes' = recipes
         /\ assets' = assets
         /\ assetCount' = assetCount)]_vars

C1_Witness ==
  /\ req.op = "updateRecipe"
  /\ req.file
  /\ Actor(req) # NoUser
  /\ req.id \in DOMAIN recipes
  /\ recipes[req.id].createdBy # Actor(req)
  /\ Forbidden(res)

\* ---------------------------------------------------------------- C3
\* C3: in every state the photo of every persisted recipe names an asset that
\* exists in the asset store.
C3_PhotoExists ==
  \A r \in DOMAIN recipes : recipes[r].photo.public_id \in assets

\* ---------------------------------------------------------------- C6
\* C6: a delete by the owner of an existing recipe removes the record and
\* reports success, whether or not the release of the photo asset succeeds.
C6_DeleteSurvivesRelease ==
  [][(/\ req'.op = "deleteRecipe"
      /\ Actor(req') # NoUser
      /\ req'.id \in DOMAIN recipes
      /\ recipes[req'.id].createdBy = Actor(req'))
     => (/\ req'.id \notin DOMAIN recipes'
         /\ Succeeded(res'))]_vars

\* ---------------------------------------------------------------- C10
\* C10: a successful update with a new photo leaves the old asset out of the
\* asset store and the recipe with the handle of the new upload, an asset
\* stored by this request; and the photo of a recipe only ever changes to a
\* handle issued by that very step, so a handle it has left never returns.
C10_PhotoReplaced ==
  [][/\ (req'.op = "updateRecipe" /\ req'.file /\ Succeeded(res'))
        => (/\ recipes[req'.id].photo.public_id \notin assets'
            /\ recipes'[req'.id].photo = res'.body.photo
            /\ recipes'[req'.id].photo.public_id \in assets' \ assets
            /\ recipes'[req'.id].photo.url # recipes[req'.id].photo.url)
     /\ \A r \in DOMAIN recipes \cap DOMAIN recipes' :
          recipes'[r].photo # recipes[r].photo
          => (/\ recipes'[r].photo.public_id > assetCount
              /\ recipes'[r].photo.public_id <= assetCount'
              /\ recipes'[r].photo.url > assetCount)]_vars

C10_Witness ==
  /\ req.op = "updateRecipe"
  /\ req.file
  /\ Succeeded(res)
  /\ req.id \in DOMAIN recipes
  /\ recipes[req.id].photo.public_id = assetCount
  /\ assetCount > 1
  /\ (assetCount - 1) \notin assets

\* ---------------------------------------------------------------- C2
HasReviewBy(recipe, user) ==
  \E i \in 1..Len(recipe.reviews) : recipe.reviews[i].user = user

OneReviewPerAuthor ==
  \A r \in DOMAIN recipes :
    \A i, j \in 1..Len(recipes[r].reviews) :
      recipes[r].reviews[i].user = recipes[r].reviews[j].user => i = j

DuplicateReview(r) ==
  r.thrown = "You have already reviewed this recipe" /\ r.code = 400

ValidationError(r) ==
  /\ r.thrown \in {"Rating must be between 1 and 10", "Description is required"}
  /\ r.code = 400

\* The requests of C2: a review by a user who already has one on the recipe.
SecondReview ==
  /\ req'.op = "addReview"
  /\ Actor(req') # NoUser
  /\ req'.id \in DOMAIN recipes
  /\ HasReviewBy(recipes[req'.id], Actor(req'))

\* C2 as stated: a further review by the same user fails with DuplicateReview
\* for every rating and description, and leaves the reviews unchanged.
C2_AlwaysDuplicate ==
  [][SecondReview => (DuplicateReview(res') /\ recipes' = recipes)]_vars

\* C2 as amended: a further review by the same user leaves the reviews
\* unchanged; it fails with DuplicateReview when its rating is within 1..10
\* and its description is not blank, and with ValidationError otherwise; and
\* no recipe ever holds two reviews by one author.
C2_DuplicateRejected ==
  /\ []OneReviewPerAuthor
  /\ [][SecondReview
        => (/\ recipes' = recipes
            /\ IF req'.rating \in 1..10 /\ Trim(req'.description) # <<>>
               THEN DuplicateReview(res')
               ELSE ValidationError(res'))]_vars

C2_Witness ==
  /\ req.op = "addReview"
  /\ Actor(req) # NoUser
  /\ req.id \in DOMAIN recipes
  /\ HasReviewBy(recipes[req.id], Actor(req))
  /\ DuplicateReview(res)
  /\ \E i \in 1..Len(recipes[req.id].reviews) :
       /\ recipes[req.id].reviews[i].user = Actor(req)
       /\ recipes[req.id].reviews[i].rating # req.rating

\* ---------------------------------------------------------------- C4
Occurrences(favs, id) == Cardinality({i \in 1..Len(favs) : favs[i] = id})

\* C4: adding an existing recipe that is not a favorite of the user succeeds
\* and makes it one; adding a recipe that is one fails with AlreadyFavorited
\* and changes nothing; removing mirrors this with NotFavorited; and no recipe
\* occurs twice in the favorites of a user.
C4_ToggleGuarded ==
  /\ [](\A u \in Users : \A r \in 1..MaxRecipes : Occurrences(favorites[u], r) <= 1)
  /\ [][(/\ req'.op = "addFavorite"
         /\ Actor(req') # NoUser
         /\ req'.id \in DOMAIN recipes)
        => IF Occurrences(favorites[Actor(req')], req'.id) = 0
           THEN /\ Succeeded(res')
                /\ res'.body.isFavorited = TRUE
                /\ Occurrences(favorites'[Actor(req')], req'.id) = 1
           ELSE /\ res'.thrown = "Recipe already in favorites"
                /\ res'.code = 400
                /\ favorites' = favorites]_vars
  /\ [][(/\ req'.op = "removeFavorite"
         /\ Actor(req') # NoUser
         /\ req'.id \in DOMAIN recipes)
        => IF Occurrences(favorites[Actor(req')], req'.id) > 0
           THEN /\ Succeeded(res')
                /\ res'.body.isFavorited = FALSE
                /\ Occurrences(favorites'[Actor(req')], req'.id) = 0
           ELSE /\ res'.thrown = "Recipe not in favorites"
                /\ res'.code = 400
                /\ favorites' = favorites]_vars

C4_Witness ==
  /\ req.op = "addFavorite"
  /\ Actor(req) # NoUser
  /\ req.id \in DOMAIN recipes
  /\ Occurrences(favorites[Actor(req)], req.id) = 1
  /\ res.thrown = "Recipe already in favorites"

\* ---------------------------------------------------------------- C5
\* C5: a read without valid credentials returns no isFavorited, and a read
\* with the valid token of an existing user returns, on every recipe, an
\* isFavorited equal to the membership of the recipe in that user's favorites.
Annotated(doc, viewer) ==
  IF viewer = NoUser THEN "isFavorited" \notin DOMAIN doc
  ELSE /\ "isFavorited" \in DOMAIN doc
       /\ doc.isFavorited = (Occurrences(favorites[viewer], doc._id) > 0)

C5_FavoriteAnnotation ==
  /\ (req.op = "getRecipe" /\ Succeeded(res)) => Annotated(res.body, Actor(req))
  /\ (req.op = "listRecipes" /\ Succeeded(res))
       => \A r \in DOMAIN res.body : Annotated(res.body[r], Actor(req))

\* ---------------------------------------------------------------- C7
\* C7: a failure reaches the client with the status code of its kind: 400 for
\* validation errors, malformed identifiers and state conflicts, 401 for a
\* missing or invalid token, 404 for a missing recipe or review, and 500 only
\* for upload or unexpected failures.
StatusOfKind(message) ==
  CASE message \in {"Please fill all fields and upload a photo", "Invalid recipe ID",
                    "Invalid review ID", "Rating must be between 1 and 10",
                    "Description is required", "Reply description is required",
                    "You have already reviewed this recipe",
                    "Recipe already in favorites", "Recipe not in favorites"} -> 400
    [] message \in {"Not authorized, no token", "Not authorized, token failed"} -> 401
    [] message \in {"Recipe not found", "Review not found"} -> 404
    [] OTHER -> 500

C7_StatusOfKind ==
  (res.thrown # "" /\ res.thrown # "Not authorized")
    => res.status = StatusOfKind(res.thrown)

\* ---------------------------------------------------------------- C8
ProtectedOps ==
  {"createRecipe", "updateRecipe", "deleteRecipe", "addReview", "addReply",
   "addFavorite", "removeFavorite"}

\* C8: a request to a protected route whose header names no existing user by
\* a verified bearer token fails as Unauthenticated, never reaches the handler
\* and changes nothing persisted; a handler only runs with req.user the
\* existing user the verified token names.
C8_GateRejects ==
  /\ []((req.op \in ProtectedOps /\ req.next)
          => (req.user \in Users /\ req.token = Bearer(req.user)))
  /\ [][(req'.op \in ProtectedOps /\ Actor(req') = NoUser)
        => (/\ Unauthenticated(res')
            /\ ~req'.next
            /\ req'.user = NoUser
            /\ UNCHANGED db)]_vars

C8_Witness ==
  /\ req.op = "addFavorite"
  /\ req.token = Bearer(NumUsers + 1)
  /\ Unauthenticated(res)
  /\ ~req.next
  /\ recipes # <<>>

\* ---------------------------------------------------------------- C9
\* C9: a recipe is created with createdBy the identity that issued the
\* create, and no later request changes the createdBy of a persisted recipe.
C9_CreatedByFixed ==
  [][\A r \in DOMAIN recipes' :
       IF r \in DOMAIN recipes
       THEN recipes'[r].createdBy = recipes[r].createdBy
       ELSE /\ req'.op = "createRecipe"
            /\ Actor(req') # NoUser
            /\ recipes'[r].createdBy = Actor(req')]_vars

C9_Witness ==
  /\ req.op = "updateRecipe"
  /\ Succeeded(res)
  /\ req.id \in DOMAIN recipes
  /\ recipes[req.id].title = "b"
  /\ recipes[req.id].createdBy = Actor(req)
  /\ recipes[req.id].createdBy # NumUsers
  /\ Len(recipes[req.id].reviews) > 0

\* ---------------------------------------------------------------- C11
\* The reviews of a recipe written by one user.
ReviewsBy(recipe, user) ==
  Cardinality({i \in 1..Len(recipe.reviews) : recipe.reviews[i].user = user})

\* Slot h holds a valid review of an existing recipe.
ValidReview(h) ==
  /\ inflight[h].req.id \in DOMAIN recipes
  /\ inflight[h].req.rating \in 1..10
  /\ Trim(inflight[h].req.description) # <<>>

\* Another request of the same user on the same recipe has loaded the recipe
\* and has not saved yet.
OtherLoaded(h) ==
  \E k \in Slots \ {h} :
    /\ inflight[k].pc = "save"
    /\ inflight[k].req.user = inflight[h].req.user
    /\ inflight[k].req.id = inflight[h].req.id

\* C11: of two valid reviews by one user on one recipe that both load the
\* recipe before either saves, the second to load passes the duplicate check
\* as the first did; each save, the later one included, adds its review to
\* the stored recipe, which then holds two reviews by that user; and each
\* request is answered 201.
C11_RaceSucceeds ==
  [][\A h \in Slots :
       LET q == inflight[h].req
       IN
       /\ (/\ inflight[h].pc = "findById" /\ inflight'[h].pc # "findById"
           /\ ValidReview(h) /\ OtherLoaded(h)
           /\ ~HasReviewBy(recipes[q.id], q.user))
          => inflight'[h].pc = "save"
       /\ (/\ inflight[h].pc = "save" /\ inflight'[h].pc # "save"
           /\ q.id \in DOMAIN recipes)
          => (/\ inflight'[h].pc = "populate"
              /\ ReviewsBy(recipes'[q.id], q.user) = ReviewsBy(recipes[q.id], q.user) + 1
              /\ HasReviewBy(recipes[q.id], q.user)
                   => ReviewsBy(recipes'[q.id], q.user) >= 2)
       /\ (inflight[h].pc = "populate" /\ inflight'[h].pc # "populate")
          => (req' = q /\ Succeeded(res') /\ res'.status = 201)]_vars

\* Both requests have been answered, the last one with a recipe that holds two
\* reviews by its author.
C11_Witness ==
  /\ \A h \in Slots : inflight[h].pc = "free"
  /\ req.op = "addReview"
  /\ Succeeded(res)
  /\ req.id \in DOMAIN recipes
  /\ ReviewsBy(recipes[req.id], req.user) = 2
  /\ res.body = recipes[req.id]
  /\ ~OneReviewPerAuthor
====
